---- MODULE Spec2Model ----
(***************************************************************************)
(* Vehicle catalog search: the in-memory index (VehicleDatabase), the      *)
(* free-text parser and search (VehicleSearchParser) and the structured    *)
(* entry point of the bot (search_vehicles).                               *)
(*                                                                         *)
(* A Python str is a sequence of one-character strings.  A Python value    *)
(* held in a dict (a JSON value) is a tagged record: an absent key, None,  *)
(* a str or an int.                                                        *)
(***************************************************************************)
EXTENDS Integers, Sequences, FiniteSets

VARIABLES vehicles, by_fipe, by_brand, by_model, op, args, result

vars == <<vehicles, by_fipe, by_brand, by_model, op, args, result>>

---------------------------------------------------------------------------
(* Characters, in code point order.                                        *)

CharOrder == <<" ", "-", "0", "1", "2", "3", "4", "5", "6", "7", "8", "9", "A", "B", "C", "D", "E", "F", "G", "H", "I", "J", "K", "L", "M", "N", "O", "P", "Q", "R", "S", "T", "U", "V", "W", "X", "Y", "Z", "a", "b", "c", "d", "e", "f", "g", "h", "i", "j", "k", "l", "m", "n", "o", "p", "q", "r", "s", "t", "u", "v", "w", "x", "y", "z">>

Digits == <<"0", "1", "2", "3", "4", "5", "6", "7", "8", "9">>

UpperLetters == <<"A", "B", "C", "D", "E", "F", "G", "H", "I", "J", "K", "L", "M", "N", "O", "P", "Q", "R", "S", "T", "U", "V", "W", "X", "Y", "Z">>

LowerLetters == <<"a", "b", "c", "d", "e", "f", "g", "h", "i", "j", "k", "l", "m", "n", "o", "p", "q", "r", "s", "t", "u", "v", "w", "x", "y", "z">>

Range(f) == {f[i] : i \in DOMAIN f}

IndexOf(seq, c) == CHOOSE i \in DOMAIN seq : seq[i] = c

Ord(c) == IndexOf(CharOrder, c)

IsDigit(c) == c \in Range(Digits)

DigitValue(c) == IndexOf(Digits, c) - 1

IsSpace(c) == c = " "

\* \w of the re module: letters, digits (and the underscore, not in the alphabet)
IsWordChar(c) == c \in Range(Digits) \cup Range(UpperLetters) \cup Range(LowerLetters)

UpperChar(c) == IF c \in Range(LowerLetters) THEN UpperLetters[IndexOf(LowerLetters, c)] ELSE c

LowerChar(c) == IF c \in Range(UpperLetters) THEN LowerLetters[IndexOf(UpperLetters, c)] ELSE c

---------------------------------------------------------------------------
(* str methods                                                             *)

upper(s) == [i \in DOMAIN s |-> UpperChar(s[i])]

lower(s) == [i \in DOMAIN s |-> LowerChar(s[i])]

RECURSIVE lstrip(_)
lstrip(s) == IF s # <<>> /\ IsSpace(Head(s)) THEN lstrip(Tail(s)) ELSE s

RECURSIVE rstrip(_)
rstrip(s) == IF s # <<>> /\ IsSpace(s[Len(s)]) THEN rstrip(SubSeq(s, 1, Len(s) - 1)) ELSE s

strip(s) == rstrip(lstrip(s))

\* sub occurs in s at 0-based offset i
OccursAt(sub, s, i) == i + Len(sub) <= Len(s) /\ \A k \in 1..Len(sub) : s[i + k] = sub[k]

\* the `in` operator on two strs
Contains(sub, s) == \E i \in 0..Len(s) : OccursAt(sub, s, i)

\* str.find: the lowest offset, or -1
find(s, sub) ==
    IF Contains(sub, s)
    THEN CHOOSE i \in 0..Len(s) : OccursAt(sub, s, i) /\ \A j \in 0..(i - 1) : ~OccursAt(sub, s, j)
    ELSE -1

\* s.replace(old, '', 1) for a non-empty old
replace_first(s, old) ==
    LET i == find(s, old)
    IN  IF i < 0 THEN s ELSE SubSeq(s, 1, i) \o SubSeq(s, i + Len(old) + 1, Len(s))

\* a < b on strs: code point order, a proper prefix first
RECURSIVE StrLess(_, _)
StrLess(a, b) ==
    IF b = <<>> THEN FALSE
    ELSE IF a = <<>> THEN TRUE
    ELSE IF Head(a) # Head(b) THEN Ord(Head(a)) < Ord(Head(b))
    ELSE StrLess(Tail(a), Tail(b))

\* sorted(list(keys)) for a set of distinct strs
RECURSIVE sorted(_)
sorted(S) ==
    IF S = {} THEN <<>>
    ELSE LET m == CHOOSE x \in S : \A y \in S \ {x} : StrLess(x, y)
         IN  <<m>> \o sorted(S \ {m})

\* str(n) for an int n >= 0
RECURSIVE IntToStr(_)
IntToStr(n) == IF n < 10 THEN <<Digits[n + 1]>> ELSE IntToStr(n \div 10) \o <<Digits[(n % 10) + 1]>>

RECURSIVE DigitsValue(_)
DigitsValue(s) == IF s = <<>> THEN 0 ELSE 10 * DigitsValue(SubSeq(s, 1, Len(s) - 1)) + DigitValue(s[Len(s)])

AllDigits(s) == s # <<>> /\ \A i \in DOMAIN s : IsDigit(s[i])

---------------------------------------------------------------------------
(* Python values                                                           *)

Missing == [k |-> "missing", s |-> <<>>, n |-> 0]

None == [k |-> "none", s |-> <<>>, n |-> 0]

StrV(s) == [k |-> "str", s |-> s, n |-> 0]

IntV(n) == [k |-> "int", s |-> <<>>, n |-> n]

\* dict.get(key, default): v is what the dict holds under the key, Missing for no key
Get(v, default) == IF v.k = "missing" THEN default ELSE v

\* str(x)
PyStr(v) ==
    CASE v.k = "str" -> v.s
      [] v.k = "int" -> IntToStr(v.n)
      [] OTHER -> <<"N", "o", "n", "e">>

\* truth value of x
Truthy(v) ==
    CASE v.k = "str" -> v.s # <<>>
      [] v.k = "int" -> v.n # 0
      [] OTHER -> FALSE

\* int(x): ok is FALSE where int raises ValueError or TypeError
PyInt(v) ==
    CASE v.k = "int" -> [ok |-> TRUE, n |-> v.n]
      [] v.k = "str" ->
            LET t == strip(v.s)
                neg == t # <<>> /\ Head(t) = "-"
                d == IF neg THEN Tail(t) ELSE t
            IN  IF AllDigits(d)
                THEN [ok |-> TRUE, n |-> IF neg THEN 0 - DigitsValue(d) ELSE DigitsValue(d)]
                ELSE [ok |-> FALSE, n |-> 0]
      [] OTHER -> [ok |-> FALSE, n |-> 0]

---------------------------------------------------------------------------
(* VehicleDatabase._create_indexes                                         *)

EmptyDict == [key \in {} |-> None]

\* d[key] = value
SetItem(d, key, value) == [x \in DOMAIN d \cup {key} |-> IF x = key THEN value ELSE d[x]]

\* if key not in d: d[key] = []; d[key].append(value)
AppendItem(d, key, value) ==
    [x \in DOMAIN d \cup {key} |->
        IF x = key THEN (IF key \in DOMAIN d THEN d[key] ELSE <<>>) \o <<value>> ELSE d[x]]

FipeKey(vehicle) == strip(PyStr(Get(vehicle.Codigo_Fipe, StrV(<<>>))))

BrandKey(vehicle) == upper(strip(PyStr(Get(vehicle.Montadora, StrV(<<>>)))))

ModelKey(vehicle) == upper(strip(PyStr(Get(vehicle.Modelo, StrV(<<>>)))))

\* one iteration of the loop over self.vehicles
IndexVehicle(idx, vehicle) ==
    [by_fipe |-> IF FipeKey(vehicle) # <<>>
                 THEN SetItem(idx.by_fipe, FipeKey(vehicle), vehicle)
                 ELSE idx.by_fipe,
     by_brand |-> IF BrandKey(vehicle) # <<>>
                  THEN AppendItem(idx.by_brand, BrandKey(vehicle), vehicle)
                  ELSE idx.by_brand,
     by_model |-> IF ModelKey(vehicle) # <<>>
                  THEN AppendItem(idx.by_model, ModelKey(vehicle), vehicle)
                  ELSE idx.by_model]

RECURSIVE IndexAll(_, _)
IndexAll(idx, vs) == IF vs = <<>> THEN idx ELSE IndexAll(IndexVehicle(idx, Head(vs)), Tail(vs))

create_indexes(vs) == IndexAll([by_fipe |-> EmptyDict, by_brand |-> EmptyDict, by_model |-> EmptyDict], vs)

---------------------------------------------------------------------------
(* VehicleDatabase._similarity: SequenceMatcher(None, a, b).ratio()        *)
(* Offsets are 0-based, ranges half-open, as in difflib.                   *)

\* length of the common run of a from i and b from j inside a[..ahi), b[..bhi)
RECURSIVE RunLen(_, _, _, _, _, _)
RunLen(a, b, i, j, ahi, bhi) ==
    IF i < ahi /\ j < bhi /\ a[i + 1] = b[j + 1] THEN 1 + RunLen(a, b, i + 1, j + 1, ahi, bhi) ELSE 0

SetMax(S) == CHOOSE x \in S : \A y \in S : y <= x

SetMin(S) == CHOOSE x \in S : \A y \in S : x <= y

\* find_longest_match: the longest common block of a[alo:ahi] and b[blo:bhi];
\* of the longest ones the one starting earliest in a, and of those the one
\* starting earliest in b (k = 0 when there is none)
find_longest_match(a, b, alo, ahi, blo, bhi) ==
    LET size(i, j) == RunLen(a, b, i, j, ahi, bhi)
        bestsize == SetMax({0} \cup {size(i, j) : i \in alo..(ahi - 1), j \in blo..(bhi - 1)})
    IN  IF bestsize = 0 THEN [i |-> alo, j |-> blo, k |-> 0]
        ELSE LET besti == SetMin({i \in alo..(ahi - 1) : \E j \in blo..(bhi - 1) : size(i, j) = bestsize})
                 bestj == SetMin({j \in blo..(bhi - 1) : size(besti, j) = bestsize})
             IN  [i |-> besti, j |-> bestj, k |-> bestsize]

\* sum of the sizes of get_matching_blocks
RECURSIVE matches(_, _, _, _, _, _)
matches(a, b, alo, ahi, blo, bhi) ==
    LET m == find_longest_match(a, b, alo, ahi, blo, bhi)
    IN  IF m.k = 0 THEN 0
        ELSE m.k
             + (IF alo < m.i /\ blo < m.j THEN matches(a, b, alo, m.i, blo, m.j) ELSE 0)
             + (IF m.i + m.k < ahi /\ m.j + m.k < bhi
                THEN matches(a, b, m.i + m.k, ahi, m.j + m.k, bhi) ELSE 0)

\* the ratio without the factor 2
calculate_ratio_unscaled(m, length) == IF length > 0 THEN [num |-> m, den |-> length] ELSE [num |-> 1, den |-> 1]

\* _calculate_ratio: 2.0 * matches / length, and 1.0 for length 0; as a fraction
calculate_ratio(m, length) == IF length > 0 THEN [num |-> 2 * m, den |-> length] ELSE [num |-> 1, den |-> 1]

similarity(a, b) == calculate_ratio(matches(a, b, 0, Len(a), 0, Len(b)), Len(a) + Len(b))

\* ratio > 0.7
AboveThreshold(r) == 10 * r.num > 7 * r.den

---------------------------------------------------------------------------
(* VehicleDatabase queries, over the indexes fipeIdx and brandIdx          *)

search_by_fipe_in(fipeIdx, fipe_code) ==
    LET fipe == strip(PyStr(fipe_code))
    IN  IF fipe \in DOMAIN fipeIdx THEN fipeIdx[fipe] ELSE None

ModelMatches(model_upper, vehicle) ==
    LET vehicle_model == ModelKey(vehicle)
    IN  Contains(model_upper, vehicle_model) \/ AboveThreshold(similarity(model_upper, vehicle_model))

\* the year test of search_by_brand_and_model for one model-accepted vehicle
YearKeeps(vehicle, year) ==
    IF Truthy(year)
    THEN LET ano_inicial == Get(vehicle.Ano_inicial, None)
             ano_final == Get(vehicle.Ano_final, None)
         IN  IF Truthy(ano_inicial) /\ Truthy(ano_final)
             THEN IF PyInt(ano_inicial).ok /\ PyInt(ano_final).ok /\ year.k = "int"
                  THEN PyInt(ano_inicial).n <= year.n /\ year.n <= PyInt(ano_final).n
                  ELSE TRUE
             ELSE TRUE
    ELSE TRUE

search_by_brand_and_model_in(brandIdx, brand, model, year) ==
    LET brand_upper == upper(strip(brand))
        model_upper == upper(strip(model))
    IN  IF brand_upper \in DOMAIN brandIdx
        THEN SelectSeq(brandIdx[brand_upper], LAMBDA v : ModelMatches(model_upper, v) /\ YearKeeps(v, year))
        ELSE <<>>

search_by_brand_in(brandIdx, brand) ==
    LET brand_upper == upper(strip(brand))
    IN  IF brand_upper \in DOMAIN brandIdx THEN brandIdx[brand_upper] ELSE <<>>

get_all_brands_in(brandIdx) == sorted(DOMAIN brandIdx)

---------------------------------------------------------------------------
(* VehicleSearchParser                                                     *)

\* r'\d{6}-\d' matches at 0-based offset i
FipeShapeAt(q, i) ==
    /\ i + 8 <= Len(q)
    /\ \A k \in 1..6 : IsDigit(q[i + k])
    /\ q[i + 7] = "-"
    /\ IsDigit(q[i + 8])

\* r'\b(19|20)\d{2}\b' matches at 0-based offset i
YearShapeAt(q, i) ==
    /\ i + 4 <= Len(q)
    /\ (q[i + 1] = "1" /\ q[i + 2] = "9") \/ (q[i + 1] = "2" /\ q[i + 2] = "0")
    /\ IsDigit(q[i + 3])
    /\ IsDigit(q[i + 4])
    /\ i = 0 \/ ~IsWordChar(q[i])
    /\ i + 4 = Len(q) \/ ~IsWordChar(q[i + 5])

\* re.search(fipe_pattern, query): the leftmost offset of a match, or -1
fipe_match_of(q) ==
    IF \E i \in 0..Len(q) : FipeShapeAt(q, i) THEN SetMin({i \in 0..Len(q) : FipeShapeAt(q, i)}) ELSE -1

\* re.search(year_pattern, query): the leftmost offset of a match, or -1
year_match_of(q) ==
    IF \E i \in 0..Len(q) : YearShapeAt(q, i) THEN SetMin({i \in 0..Len(q) : YearShapeAt(q, i)}) ELSE -1

\* the brand scan without the lowercasing
RECURSIVE FirstBrandIn_case_sensitive(_, _)
FirstBrandIn_case_sensitive(brands, query) ==
    IF brands = <<>> THEN None
    ELSE IF Contains(Head(brands), query) THEN StrV(Head(brands))
    ELSE FirstBrandIn_case_sensitive(Tail(brands), query)

\* the first brand of the list that occurs in the query, both lowercased
RECURSIVE FirstBrandIn(_, _)
FirstBrandIn(brands, query) ==
    IF brands = <<>> THEN None
    ELSE IF Contains(lower(Head(brands)), lower(query)) THEN StrV(Head(brands))
    ELSE FirstBrandIn(Tail(brands), query)

parse_query_in(brandIdx, query) ==
    LET fipe_match == fipe_match_of(query)
        year_match == year_match_of(query)
    IN  [brand |-> FirstBrandIn(get_all_brands_in(brandIdx), query),
         model |-> None,
         year |-> IF year_match >= 0
                  THEN IntV(DigitsValue(SubSeq(query, year_match + 1, year_match + 4)))
                  ELSE None,
         fipe_code |-> IF fipe_match >= 0
                       THEN StrV(SubSeq(query, fipe_match + 1, fipe_match + 8))
                       ELSE None,
         raw_query |-> query]

\* search with the year filter wrongly applied to the identifier hit as well
search_in_year_checked(fipeIdx, brandIdx, query) ==
    LET parsed == parse_query_in(brandIdx, query)
        vehicle == IF Truthy(parsed.fipe_code) THEN search_by_fipe_in(fipeIdx, parsed.fipe_code) ELSE None
    IN  IF vehicle # None /\ YearKeeps(vehicle, parsed.year) THEN <<vehicle>>
        ELSE IF Truthy(parsed.brand)
             THEN search_by_brand_and_model_in(brandIdx, parsed.brand.s,
                                               strip(replace_first(query, parsed.brand.s)), parsed.year)
             ELSE <<>>

search_in(fipeIdx, brandIdx, query) ==
    LET parsed == parse_query_in(brandIdx, query)
        vehicle == IF Truthy(parsed.fipe_code) THEN search_by_fipe_in(fipeIdx, parsed.fipe_code) ELSE None
    IN  IF vehicle # None THEN <<vehicle>>
        ELSE IF Truthy(parsed.brand)
             THEN search_by_brand_and_model_in(brandIdx, parsed.brand.s,
                                               strip(replace_first(query, parsed.brand.s)), parsed.year)
             ELSE <<>>

---------------------------------------------------------------------------
(* whatsapp_bot.search_vehicles; vehicle_info is what the extraction call  *)
(* returned, a dict with any of the keys fipe_code, brand, model, year     *)

search_vehicles_in(fipeIdx, brandIdx, user_message, vehicle_info) ==
    LET fipe_code == Get(vehicle_info.fipe_code, None)
        brand == Get(vehicle_info.brand, None)
        model == Get(vehicle_info.model, None)
        year == Get(vehicle_info.year, None)
        vehicle == search_by_fipe_in(fipeIdx, fipe_code)
        results ==
            IF Truthy(fipe_code) THEN (IF vehicle # None THEN <<vehicle>> ELSE <<>>)
            ELSE IF Truthy(brand) /\ Truthy(model)
                 THEN search_by_brand_and_model_in(brandIdx, brand.s, model.s, year)
            ELSE IF Truthy(brand) THEN search_by_brand_in(brandIdx, brand.s)
            ELSE <<>>
    IN  IF results = <<>> THEN search_in(fipeIdx, brandIdx, user_message) ELSE results

---------------------------------------------------------------------------
(* The inputs: strs, catalog rows, queries, extraction results             *)

sFipe1 == <<"0", "0", "2", "1", "0", "7", "-", "5">>

sFipe2 == <<"9", "9", "9", "9", "9", "9", "-", "9">>

sFipePad == <<" ", "0", "0", "2", "1", "0", "7", "-", "5", " ">>

sTOYOTA == <<"T", "O", "Y", "O", "T", "A">>

sToyota == <<"T", "o", "y", "o", "t", "a">>

sToyotaSp == <<" ", "T", "o", "y", "o", "t", "a", " ">>

sTOY == <<"T", "O", "Y">>

sFORD == <<"F", "O", "R", "D">>

sHILUX == <<"H", "I", "L", "U", "X">>

sHilux == <<"H", "i", "l", "u", "x">>

sCOROLLA == <<"C", "O", "R", "O", "L", "L", "A">>

sCorola == <<"c", "o", "r", "o", "l", "a">>

sFUSION == <<"F", "U", "S", "I", "O", "N">>

sBlank == <<" ", " ">>

s2010 == <<"2", "0", "1", "0">>

s2018 == <<"2", "0", "1", "8">>

sNA == <<"N", "-", "A">>

qFipeBrandYear == <<"F", "O", "R", "D", " ", "0", "0", "2", "1", "0", "7", "-", "5", " ", "2", "0", "2", "0">>

qToyotaHilux2015 == <<"T", "o", "y", "o", "t", "a", " ", "H", "i", "l", "u", "x", " ", "2", "0", "1", "5">>

qToyotaHilux == <<"T", "o", "y", "o", "t", "a", " ", "H", "i", "l", "u", "x">>

qTOYOTAHILUX == <<"T", "O", "Y", "O", "T", "A", " ", "H", "I", "L", "U", "X">>

qSeven == <<"1", "0", "0", "2", "1", "0", "7", "-", "5">>

qTwoAfter == <<"0", "0", "2", "1", "0", "7", "-", "5", "5">>

qNoRule == <<"a", "b", "c", " ", "1", "2", "3">>

qUnknownFipe == <<"T", "O", "Y", "O", "T", "A", " ", "9", "9", "9", "9", "9", "9", "-", "9">>

qCorolla2015 == <<"T", "O", "Y", "O", "T", "A", " ", "C", "O", "R", "O", "L", "L", "A", " ", "2", "0", "1", "5">>

qCorolla2020 == <<"T", "O", "Y", "O", "T", "A", " ", "C", "O", "R", "O", "L", "L", "A", " ", "2", "0", "2", "0">>

qnone == <<"n", "o", "n", "e">>

qEmbeddedYear == <<"F", "O", "R", "D", " ", "x", "2", "0", "1", "5", " ", "1", "9", "9", "9", "9">>

qFord == <<"f", "o", "r", "d">>

Vehicle(fipe, brand, model, ano_inicial, ano_final) ==
    [Codigo_Fipe |-> fipe, Montadora |-> brand, Modelo |-> model,
     Ano_inicial |-> ano_inicial, Ano_final |-> ano_final]

vHilux == Vehicle(StrV(sFipe1), StrV(sTOYOTA), StrV(sHILUX), IntV(2010), IntV(2018))

\* the same code as vHilux, a brand to normalise, the years as strs
vCorolla == Vehicle(StrV(sFipePad), StrV(sToyotaSp), StrV(sCOROLLA), StrV(s2010), StrV(s2018))

\* no code, a range starting at 0
vFusion == Vehicle(Missing, StrV(sFORD), StrV(sFUSION), IntV(0), IntV(2018))

\* every field null
vNull == Vehicle(None, None, None, None, None)

\* blank code and brand, the other keys absent
vBlank == Vehicle(StrV(sBlank), StrV(sBlank), Missing, Missing, Missing)

\* a brand that is a prefix of another, a year that is no number
vToy == Vehicle(StrV(sFipe2), StrV(sTOY), StrV(sHILUX), StrV(sNA), IntV(2018))

VehiclePool == {vHilux, vCorolla, vFusion, vNull, vBlank, vToy}

MaxRecords == 2

Catalogs == UNION {[1..n -> VehiclePool] : n \in 0..MaxRecords}

Queries ==
    {<<>>, sFipe1, sFipePad, qFipeBrandYear, qToyotaHilux2015, qToyotaHilux, qTOYOTAHILUX, sTOYOTA,
     qSeven, qTwoAfter, qNoRule, qUnknownFipe, qCorolla2015, qCorolla2020, qnone, qEmbeddedYear, qFord}

FipeArgs == {StrV(sFipe1), StrV(sFipePad), StrV(sFipe2), StrV(<<"N", "o", "n", "e">>), StrV(<<>>)}

BrandArgs == {sTOYOTA, sToyotaSp, sFORD, sTOY, qnone, <<>>}

ModelArgs == {sHilux, sCOROLLA, sCorola, sFUSION, <<>>}

YearArgs == {None, IntV(0), IntV(2010), IntV(2015), IntV(2018), IntV(2019), StrV(s2010)}

\* what the extraction call may return
VehicleInfos ==
    [fipe_code : {Missing, None, StrV(sFipe1), StrV(sFipe2)},
     brand : {Missing, None, StrV(sToyota), StrV(sFORD)},
     model : {Missing, StrV(sHilux), StrV(sCorola)},
     year : {Missing, IntV(0), IntV(2015), IntV(2020)}]

Messages == {qToyotaHilux2015, qCorolla2015, qNoRule}

MaxSimLen == 4

SimAlphabet == {"A", "B"}

SimStrings == UNION {[1..n -> SimAlphabet] : n \in 0..MaxSimLen}

---------------------------------------------------------------------------
(* The state machine: the database is built, then serves calls             *)

Built(vs) ==
    /\ vehicles = vs
    /\ by_fipe = create_indexes(vs).by_fipe
    /\ by_brand = create_indexes(vs).by_brand
    /\ by_model = create_indexes(vs).by_model

Idle == op = "idle" /\ args = <<>> /\ result = <<>>

Init == (\E vs \in Catalogs : Built(vs)) /\ Idle

Call(name, a, r) ==
    /\ op = "idle"
    /\ op' = name
    /\ args' = a
    /\ result' = r
    /\ UNCHANGED <<vehicles, by_fipe, by_brand, by_model>>

search_by_fipe(fipe_code) == Call("search_by_fipe", <<fipe_code>>, search_by_fipe_in(by_fipe, fipe_code))

search_by_brand_and_model(brand, model, year) ==
    Call("search_by_brand_and_model", <<brand, model, year>>,
         search_by_brand_and_model_in(by_brand, brand, model, year))

search_by_brand(brand) == Call("search_by_brand", <<brand>>, search_by_brand_in(by_brand, brand))

get_all_brands == Call("get_all_brands", <<>>, get_all_brands_in(by_brand))

parse_query(query) == Call("parse_query", <<query>>, parse_query_in(by_brand, query))

search(query) == Call("search", <<query>>, search_in(by_fipe, by_brand, query))

\* search_vehicles cutting the list search_by_brand returned, which is the
\* index's own list, down to one record in place
search_vehicles_truncating(user_message, vehicle_info) ==
    LET brand == Get(vehicle_info.brand, None)
        B == upper(strip(brand.s))
        aliased == /\ ~Truthy(Get(vehicle_info.fipe_code, None))
                   /\ Truthy(brand) /\ ~Truthy(Get(vehicle_info.model, None))
                   /\ B \in DOMAIN by_brand
    IN  /\ op = "idle"
        /\ op' = "search_vehicles"
        /\ args' = <<user_message, vehicle_info>>
        /\ result' = IF aliased THEN SubSeq(by_brand[B], 1, 1)
                     ELSE search_vehicles_in(by_fipe, by_brand, user_message, vehicle_info)
        /\ by_brand' = IF aliased THEN [by_brand EXCEPT ![B] = SubSeq(@, 1, 1)] ELSE by_brand
        /\ UNCHANGED <<vehicles, by_fipe, by_model>>

search_vehicles(user_message, vehicle_info) ==
    Call("search_vehicles", <<user_message, vehicle_info>>,
         search_vehicles_in(by_fipe, by_brand, user_message, vehicle_info))

_similarity(a, b) == Call("_similarity", <<a, b>>, similarity(a, b))

\* the caller takes the returned value
Return ==
    /\ op # "idle"
    /\ op' = "idle"
    /\ args' = <<>>
    /\ result' = <<>>
    /\ UNCHANGED <<vehicles, by_fipe, by_brand, by_model>>

Next ==
    \/ \E c \in FipeArgs : search_by_fipe(c)
    \/ \E b \in BrandArgs, m \in ModelArgs, y \in YearArgs : search_by_brand_and_model(b, m, y)
    \/ \E b \in BrandArgs : search_by_brand(b)
    \/ get_all_brands
    \/ \E q \in Queries : parse_query(q)
    \/ \E q \in Queries : search(q)
    \/ \E msg \in Messages, info \in VehicleInfos : search_vehicles(msg, info)
    \/ Return

Spec == Init /\ [][Next]_vars

\* the similarity primitive alone, on every pair of strs of the small alphabet
InitSim == Built(<<>>) /\ Idle

NextSim ==
    \/ \E a \in SimStrings, b \in SimStrings : _similarity(a, b)
    \/ Return

SpecSim == InitSim /\ [][NextSim]_vars

---------------------------------------------------------------------------
(* Vocabulary of the properties                                            *)

\* the field holds a value (the key is there and is not null)
Present(v) == v.k \notin {"missing", "none"}

\* sub occurs in s at offset i, letter case ignored
OccursAtIgnoreCase(sub, s, i) ==
    i + Len(sub) <= Len(s) /\ \A k \in 1..Len(sub) : UpperChar(s[i + k]) = UpperChar(sub[k])

ContainsIgnoreCase(sub, s) == \E i \in 0..Len(s) : OccursAtIgnoreCase(sub, s, i)

\* s without the first occurrence of sub, letter case ignored, trimmed
WithoutFirstIgnoreCase(s, sub) ==
    IF ContainsIgnoreCase(sub, s)
    THEN LET i == SetMin({j \in 0..Len(s) : OccursAtIgnoreCase(sub, s, j)})
         IN  strip(SubSeq(s, 1, i) \o SubSeq(s, i + Len(sub) + 1, Len(s)))
    ELSE strip(s)

\* the first substring of q of shape six digits, hyphen, digit (None: there is none)
FirstIdentifier(q) ==
    IF \E i \in 0..Len(q) : FipeShapeAt(q, i)
    THEN LET i == CHOOSE j \in 0..Len(q) : FipeShapeAt(q, j) /\ \A h \in 0..(j - 1) : ~FipeShapeAt(q, h)
         IN  StrV(SubSeq(q, i + 1, i + 8))
    ELSE None

\* a whole digits-hyphen-digits token of exactly six digits and one digit at offset i
ExactTokenAt(q, i) ==
    /\ FipeShapeAt(q, i)
    /\ i = 0 \/ ~IsDigit(q[i])
    /\ i + 8 = Len(q) \/ ~IsDigit(q[i + 9])

\* the record carries an integer year range
HasIntegerRange(v) ==
    /\ Present(v.Ano_inicial) /\ PyInt(v.Ano_inicial).ok
    /\ Present(v.Ano_final) /\ PyInt(v.Ano_final).ok

InRange(v, y) == PyInt(v.Ano_inicial).n <= y /\ y <= PyInt(v.Ano_final).n

\* the year filter as specified: an integer range decides, anything else keeps
YearFilterPasses(v, year) == (year.k = "int" /\ HasIntegerRange(v)) => InRange(v, year.n)

\* the model test as specified: substring, or similarity above 0.7
ModelAccepted(text, v) ==
    LET vm == upper(strip(PyStr(Get(v.Modelo, StrV(<<>>)))))
        r == similarity(upper(text), vm)
    IN  Contains(upper(text), vm) \/ 10 * r.num > 7 * r.den

\* the brand of a record, trimmed and uppercased, is B
HasBrand(v, B) == v.Montadora.k = "str" /\ upper(strip(v.Montadora.s)) = B

HasIdentifier(v, code) == v.Codigo_Fipe.k = "str" /\ strip(v.Codigo_Fipe.s) = code

RatioEq(r, num, den) == r.num * den = num * r.den

ShareNoChar(a, b) == Range(a) \cap Range(b) = {}

---------------------------------------------------------------------------
(* C1                                                                      *)

\* C1: search(query), when the first substring of the query of shape six
\* digits, hyphen, digit is a key of by_fipe, returns exactly the one record
\* stored under that key, whatever brand, model text or year the query holds;
\* when that code is no key, it returns what the brand-scoped step returns.
C1_IdentifierShortCircuit ==
    op = "search" =>
        LET q == args[1]
            code == FirstIdentifier(q)
            parsed == parse_query_in(by_brand, q)
        IN  code # None =>
                IF code.s \in DOMAIN by_fipe
                THEN result = <<by_fipe[code.s]>>
                ELSE result = (IF parsed.brand = None THEN <<>>
                               ELSE search_by_brand_and_model_in(
                                        by_brand, parsed.brand.s,
                                        strip(replace_first(q, parsed.brand.s)), parsed.year))

\* the query names FORD and the year 2020, and the TOYOTA record of 2010-2018 is returned
C1_Witness ==
    /\ op = "search"
    /\ args = <<qFipeBrandYear>>
    /\ vehicles = <<vHilux, vFusion>>
    /\ result = <<vHilux>>

---------------------------------------------------------------------------
(* C2                                                                      *)

\* C2: when a brand B is extracted and the identifier short-circuit does not
\* fire, search(query) returns the records of by_brand[B], in order, whose
\* model contains the model-text or is similar to it above 0.7 and that pass
\* the year filter, the model-text being the query without the first
\* occurrence of B (letter case ignored), trimmed; and with the catalog
\* {TOYOTA, HILUX, 2010-2018} the query "Toyota Hilux 2015" returns the record.
C2_BrandScopedMatch ==
    op = "search" =>
        LET q == args[1]
            parsed == parse_query_in(by_brand, q)
            fires == parsed.fipe_code # None /\ parsed.fipe_code.s \in DOMAIN by_fipe
        IN  /\ (parsed.brand # None /\ ~fires) =>
                result = SelectSeq(by_brand[parsed.brand.s],
                                   LAMBDA v : /\ ModelAccepted(WithoutFirstIgnoreCase(q, parsed.brand.s), v)
                                              /\ YearFilterPasses(v, parsed.year))
            /\ (vehicles = <<vHilux>> /\ q = qToyotaHilux2015) => result = <<vHilux>>

---------------------------------------------------------------------------
(* C3                                                                      *)

\* C3: search_by_brand_and_model(brand, model, year) returns, of the
\* model-accepted records of the brand, those that pass the year filter: with
\* an integer year Y, a record with an integer range is returned if and only
\* if year-start <= Y <= year-end, for every integer value of the bounds and
\* of Y; a record without an integer range, or any record when no year is
\* supplied, is returned.
C3_YearFilter ==
    op = "search_by_brand_and_model" =>
        LET B == upper(strip(args[1]))
            year == args[3]
        IN  (B \in DOMAIN by_brand /\ year.k \in {"int", "none"}) =>
                result = SelectSeq(by_brand[B],
                                   LAMBDA v : ModelAccepted(strip(args[2]), v) /\ YearFilterPasses(v, year))

---------------------------------------------------------------------------
(* C4                                                                      *)

\* C4: with a brand known, no model text and no identifier, both entry points
\* return the records of the brand unfiltered by model, and the year filter
\* still applies: with a year Y supplied, no record whose integer range does
\* not contain Y is returned.
C4_BrandOnlyFallback ==
    /\ op = "search_vehicles" =>
            LET info == args[2]
                B == upper(strip(info.brand.s))
            IN  (/\ Truthy(info.brand) /\ ~Truthy(info.model) /\ ~Truthy(info.fipe_code)
                 /\ B \in DOMAIN by_brand) =>
                    /\ info.year.k = "missing" => result = by_brand[B]
                    /\ (info.year.k = "int" /\ info.year.n # 0) =>
                            \A i \in DOMAIN result : YearFilterPasses(result[i], info.year)
    /\ op = "search" =>
            LET q == args[1]
                parsed == parse_query_in(by_brand, q)
            IN  (/\ parsed.brand # None /\ parsed.fipe_code = None
                 /\ strip(replace_first(q, parsed.brand.s)) = <<>>) =>
                    result = SelectSeq(by_brand[parsed.brand.s], LAMBDA v : YearFilterPasses(v, parsed.year))

---------------------------------------------------------------------------
(* C5                                                                      *)

\* C5: for every key B of by_brand, every record of by_brand[B] has the
\* brand B (trimmed, uppercased), by_brand[B] holds the records of the
\* catalog with that brand, as often and in the order of the catalog, and
\* get_all_brands() is the sorted list of these keys without duplicates.
C5_BrandIndex ==
    LET brands == get_all_brands_in(by_brand)
    IN  /\ \A B \in DOMAIN by_brand :
            /\ \A i \in DOMAIN by_brand[B] : HasBrand(by_brand[B][i], B)
            /\ by_brand[B] = SelectSeq(vehicles, LAMBDA v : HasBrand(v, B))
        /\ Range(brands) = DOMAIN by_brand
        /\ \A i \in DOMAIN brands : \A j \in DOMAIN brands : i < j => StrLess(brands[i], brands[j])

---------------------------------------------------------------------------
(* C6                                                                      *)

\* C6 as stated: the similarity is symmetric, similarity(a, a) = 1.0,
\* similarity(a, b) = 0.0 when a and b share no character (read for two strs
\* that are not both empty), and the test "> 0.7" gives the same verdict in
\* either argument order.
C6_Symmetric ==
    op = "_similarity" =>
        LET a == args[1]
            b == args[2]
            back == similarity(b, a)
        IN  /\ RatioEq(result, back.num, back.den)
            /\ a = b => RatioEq(result, 1, 1)
            /\ (ShareNoChar(a, b) /\ <<a, b>> # <<<<>>, <<>>>>) => RatioEq(result, 0, 1)
            /\ (10 * result.num > 7 * result.den) <=> (10 * back.num > 7 * back.den)

\* C6 amended: similarity(a, a) = 1.0 for every str a, similarity(a, b) = 0.0
\* when a and b share no character and are not both empty, and the ratio lies
\* in [0, 1]; nothing is said of the two argument orders.
C6_IdentityAndDisjoint ==
    op = "_similarity" =>
        LET a == args[1]
            b == args[2]
        IN  /\ a = b => RatioEq(result, 1, 1)
            /\ (ShareNoChar(a, b) /\ <<a, b>> # <<<<>>, <<>>>>) => RatioEq(result, 0, 1)
            /\ 0 <= result.num /\ result.num <= result.den

\* AABA against BAAA gives 0.75 (the other order gives 0.5)
C6_Witness ==
    /\ op = "_similarity"
    /\ args = <<<<"A", "A", "B", "A">>, <<"B", "A", "A", "A">>>>
    /\ RatioEq(result, 3, 4)
    /\ RatioEq(similarity(args[2], args[1]), 1, 2)

---------------------------------------------------------------------------
(* C7                                                                      *)

\* C7: the identifier parse_query extracts is the first substring of the
\* query of shape six digits, hyphen, digit; a digits-hyphen-digits token of
\* another shape (seven or more digits before the hyphen, two or more after)
\* is not recognised, so the identifier is absent unless the query holds a
\* token of exactly that shape; "002107-5" gives identifier "002107-5" and no
\* year.
C7_IdentifierExtraction ==
    op = "parse_query" =>
        LET q == args[1]
        IN  /\ result.fipe_code = FirstIdentifier(q)
            /\ result.fipe_code # None => \E i \in 0..Len(q) : ExactTokenAt(q, i)
            /\ q = sFipe1 => (result.fipe_code = StrV(sFipe1) /\ result.year = None)

---------------------------------------------------------------------------
(* C8                                                                      *)

\* C8: the brand parse_query extracts is absent or a key of by_brand; it is
\* present if and only if some known brand occurs in the query, letter case
\* ignored, and it is then the first such brand in sorted order; a query that
\* matches no rule gives identifier, year and brand all absent.
C8_BrandExtraction ==
    op = "parse_query" =>
        LET q == args[1]
            known == {B \in DOMAIN by_brand : ContainsIgnoreCase(B, q)}
        IN  /\ result.brand = None \/ (result.brand.k = "str" /\ result.brand.s \in DOMAIN by_brand)
            /\ result.brand # None <=> known # {}
            /\ result.brand # None =>
                    /\ result.brand.s \in known
                    /\ \A B \in known \ {result.brand.s} : StrLess(result.brand.s, B)
            /\ (/\ known = {}
                /\ \A i \in 0..Len(q) : ~FipeShapeAt(q, i) /\ ~YearShapeAt(q, i)) =>
                    (result.brand = None /\ result.year = None /\ result.fipe_code = None)

\* TOY and TOYOTA both occur in "Toyota Hilux": TOY, first in sorted order, is extracted
C8_Witness ==
    /\ op = "parse_query"
    /\ args = <<qToyotaHilux>>
    /\ DOMAIN by_brand = {sTOY, sTOYOTA}
    /\ result.brand = StrV(sTOY)

---------------------------------------------------------------------------
(* C9                                                                      *)

---------------------------------------------------------------------------
(* C10                                                                     *)

\* C10: a record whose identifier (brand) is absent - no key, or null - or
\* empty after trimming contributes no key to by_fipe (by_brand): no key is
\* empty and every key is the trimmed identifier (the trimmed, uppercased
\* brand) that some record of the catalog holds.
C10_AbsentFieldsSkipped ==
    /\ \A code \in DOMAIN by_fipe :
            code # <<>> /\ \E i \in DOMAIN vehicles : HasIdentifier(vehicles[i], code)
    /\ \A B \in DOMAIN by_brand :
            B # <<>> /\ \E i \in DOMAIN vehicles : HasBrand(vehicles[i], B)

====
